---- MODULE Spec2Model ----
(***************************************************************************)
(* Model of the qr-text-share server: the in-memory session store          *)
(* (src/lib/session-store.ts), the session endpoints                        *)
(* (POST /api/session, POST and GET /api/session/[id]) and the SSE stream   *)
(* endpoint (GET /api/session/[id]/stream).                                 *)
(*                                                                         *)
(* Every handler runs to completion on the single JavaScript thread, so    *)
(* one action is one whole handler.  Text is a tuple of one-character      *)
(* strings, so that trim() is computed.  Time is counted in half hours.    *)
(***************************************************************************)
EXTENDS Integers, Sequences, FiniteSets, TLC

\* ---------------------------------------------------------------- bounds
MaxSessions == 2
MaxStreams == 2
MaxSteps == 5
MaxTicks == 3

\* ----------------------------------------------------- program constants
\* cleanupOldSessions(60), run every 30 * 60 * 1000 ms
ReaperMaxAgeMinutes == 60
ReaperPeriodMinutes == 30

VARIABLES
    sessions,   \* the Map id -> Session (text, createdAt, listeners)
    nextId,     \* how many ids nanoid has handed out
    streams,    \* per stream instance: request id, timer, controller state, chunks
    now,        \* the clock, in half hours
    lastReap,   \* the clock at the last run of the reaper interval
    lastPub,    \* per live id: the text of the last publish answered with success
    steps,      \* how many requests, timer callbacks and disconnects have run
    page        \* the desktop page: its React state and its EventSource

vars == <<sessions, nextId, streams, now, lastReap, lastPub, steps, page>>

Ids == 1..MaxSessions
Chans == 1..MaxStreams

\* ------------------------------------------------------------------ text
Space == " "
Empty == <<>>

RECURSIVE TrimStart(_)
TrimStart(s) ==
    IF s # Empty /\ Head(s) = Space THEN TrimStart(Tail(s)) ELSE s

RECURSIVE TrimEnd(_)
TrimEnd(s) ==
    IF s # Empty /\ s[Len(s)] = Space THEN TrimEnd(SubSeq(s, 1, Len(s) - 1)) ELSE s

\* String.prototype.trim
Trim(s) == TrimEnd(TrimStart(s))

\* JavaScript truthiness of a string
Truthy(s) == s # Empty

\* the request bodies of the publish endpoint: body.text absent, not a
\* string, or a string
Bodies ==
    { [kind |-> "absent", chars |-> Empty],
      [kind |-> "number", chars |-> Empty],
      [kind |-> "malformed", chars |-> Empty],
      [kind |-> "string", chars |-> Empty],
      [kind |-> "string", chars |-> <<Space>>],
      [kind |-> "string", chars |-> <<"a">>],
      [kind |-> "string", chars |-> <<Space, "b", Space>>] }

\* ---------------------------------------------------------------- chunks
\* data: {"type":"connected","sessionId":id}  (encoded to bytes)
ConnectedChunk(id) ==
    [frame |-> "data", json |-> [type |-> "connected", sessionId |-> id],
     encoded |-> TRUE]

\* data: {"type":"text","text":t}  (encoded to bytes)
SnapshotChunk(t) ==
    [frame |-> "data", json |-> [type |-> "text", text |-> t], encoded |-> TRUE]

\* data: {"text":t}  (the string itself, no type field)
UpdateChunk(t) ==
    [frame |-> "data", json |-> [text |-> t], encoded |-> FALSE]

\* : keepalive  (an SSE comment, encoded to bytes)
KeepaliveChunk ==
    [frame |-> "comment", json |-> [comment |-> "keepalive"], encoded |-> TRUE]

\* what the page's onmessage handler takes for the connected message
IsConnectedEvent(ch) ==
    ch.frame = "data" /\ "type" \in DOMAIN ch.json /\ ch.json.type = "connected"

\* what the page's onmessage handler takes for a text update
IsValueEvent(ch) ==
    /\ ch.frame = "data"
    /\ ~IsConnectedEvent(ch)
    /\ "text" \in DOMAIN ch.json
    /\ (("type" \in DOMAIN ch.json /\ ch.json.type = "text") \/ Truthy(ch.json.text))

\* --------------------------------------------------------------- handles
\* the two objects of one stream instance: its controller and the stream
Controller(c) == <<"controller", c>>
StreamObject(c) == <<"stream", c>>

IdleStream ==
    [opened |-> FALSE, sid |-> 0, snap |-> Empty, timer |-> FALSE,
     closed |-> FALSE, emitted |-> <<>>]

\* an enqueue that a closed stream accepts without throwing
CanEnqueueClosed(st, h) ==
    h[1] = "controller"

\* ------------------------------------------------- ReadableStream control
\* controller.enqueue throws once the stream is closed or cancelled
CanEnqueue(st, h) ==
    /\ h[1] = "controller"
    /\ ~st[h[2]].closed

Enqueue(st, h, chunk) ==
    [st EXCEPT ![h[2]].emitted = Append(@, chunk)]

\* controller.close(): throws when already closed; the callers swallow it
Close(st, h) ==
    IF h[1] = "controller" THEN [st EXCEPT ![h[2]].closed = TRUE] ELSE st

\* ------------------------------------------------------------- sequences
SeqToSet(s) == { s[i] : i \in 1..Len(s) }

RECURSIVE Without(_, _)
Without(s, x) ==
    IF s = <<>> THEN <<>>
    ELSE IF Head(s) = x THEN Without(Tail(s), x)
    ELSE <<Head(s)>> \o Without(Tail(s), x)

\* an add that pushes onto an array
SetAddPush(s, x) == Append(s, x)

\* Set.prototype.add on an insertion-ordered set
SetAdd(s, x) == IF x \in SeqToSet(s) THEN s ELSE Append(s, x)

\* Map.prototype.delete
MapDelete(m, id) == [i \in DOMAIN m \ {id} |-> m[i]]

\* ------------------------------------------------------- the desktop page
\* HomePage before its first render: sessionInfo null (0), nothing in
\* eventSourceRef, no fetch under way. ran is the sessionInfo that the
\* generateQRCode of the last run of the mount effect was built over (-1:
\* the effect has not run); own counts the runs of generateQRCode that no
\* click started
HomePage ==
    [mounted |-> FALSE, sessionInfo |-> 0, ran |-> -1, fetching |-> FALSE,
     error |-> FALSE, es |-> "none", esId |-> 0, esChan |-> 0, own |-> 0]

\* ----------------------------------------------------------- the registry
Init ==
    /\ sessions = <<>>
    /\ nextId = 0
    /\ streams = [c \in Chans |-> IdleStream]
    /\ now = 0
    /\ lastReap = 0
    /\ lastPub = <<>>
    /\ steps = 0
    /\ page = HomePage

\* one more handler has run
Step == steps < MaxSteps /\ steps' = steps + 1

\* a request that was refused and changed nothing is not counted
StepIf(served) ==
    IF served THEN Step ELSE steps' = steps

\* a createSession that starts the whole Map afresh
createSessionReset(id) ==
    [i \in DOMAIN sessions \cup {id} |->
        [text |-> Empty, createdAt |-> now, listeners |-> <<>>]]

\* createSession: a fresh id, empty text, the current time, no listeners
createSession(id) ==
    sessions @@ (id :> [text |-> Empty, createdAt |-> now, listeners |-> <<>>])

\* getSession
HasSession(id) == id \in DOMAIN sessions

\* ------------------------------------------------------- session-store.ts
\* Notify without the try/catch: the first failing enqueue ends the loop
\* and the error leaves updateSession
RECURSIVE NotifyNoCatch(_, _, _)
NotifyNoCatch(todo, chunk, acc) ==
    IF todo = <<>> THEN acc
    ELSE LET h == Head(todo) IN
         IF CanEnqueue(acc.streams, h)
         THEN NotifyNoCatch(Tail(todo), chunk,
                            [acc EXCEPT !.streams = Enqueue(@, h, chunk),
                                        !.attempted = @ \cup {h}])
         ELSE [acc EXCEPT !.attempted = @ \cup {h}, !.failed = @ \cup {h},
                          !.threw = TRUE]

\* Notify whose catch removes the listener and then leaves the loop
RECURSIVE NotifyStopsAtFailure(_, _, _)
NotifyStopsAtFailure(todo, chunk, acc) ==
    IF todo = <<>> THEN acc
    ELSE LET h == Head(todo) IN
         IF CanEnqueue(acc.streams, h)
         THEN NotifyStopsAtFailure(Tail(todo), chunk,
                                   [acc EXCEPT !.streams = Enqueue(@, h, chunk),
                                               !.attempted = @ \cup {h}])
         ELSE [acc EXCEPT !.listeners = Without(@, h),
                          !.attempted = @ \cup {h}, !.failed = @ \cup {h}]

\* a loop whose enqueue waits for the reader once two chunks are queued:
\* it does not get past such a listener
RECURSIVE NotifyBlocking(_, _, _)
NotifyBlocking(todo, chunk, acc) ==
    IF todo = <<>> THEN acc
    ELSE LET h == Head(todo) IN
         IF CanEnqueue(acc.streams, h)
         THEN IF Len(acc.streams[h[2]].emitted) >= 2
              THEN acc
              ELSE NotifyBlocking(Tail(todo), chunk,
                                  [acc EXCEPT !.streams = Enqueue(@, h, chunk),
                                              !.attempted = @ \cup {h}])
         ELSE NotifyBlocking(Tail(todo), chunk,
                             [acc EXCEPT !.listeners = Without(@, h),
                                         !.attempted = @ \cup {h},
                                         !.failed = @ \cup {h}])

\* a loop that notifies the first listener only
RECURSIVE NotifyFirstOnly(_, _, _)
NotifyFirstOnly(todo, chunk, acc) ==
    IF todo = <<>> THEN acc
    ELSE LET h == Head(todo) IN
         IF CanEnqueue(acc.streams, h)
         THEN [acc EXCEPT !.streams = Enqueue(@, h, chunk),
                          !.attempted = @ \cup {h}]
         ELSE NotifyFirstOnly(Tail(todo), chunk,
                              [acc EXCEPT !.listeners = Without(@, h),
                                          !.attempted = @ \cup {h},
                                          !.failed = @ \cup {h}])

\* the forEach of updateSession: enqueue on each listener in insertion
\* order; a listener whose enqueue throws is deleted and the loop goes on
RECURSIVE Notify(_, _, _)
Notify(todo, chunk, acc) ==
    IF todo = <<>> THEN acc
    ELSE LET h == Head(todo) IN
         IF CanEnqueue(acc.streams, h)
         THEN Notify(Tail(todo), chunk,
                     [acc EXCEPT !.streams = Enqueue(@, h, chunk),
                                 !.attempted = @ \cup {h}])
         ELSE Notify(Tail(todo), chunk,
                     [acc EXCEPT !.listeners = Without(@, h),
                                 !.attempted = @ \cup {h},
                                 !.failed = @ \cup {h}])

\* updateSession that notifies but does not store the text
updateSessionNoStore(id, text) ==
    IF ~HasSession(id)
    THEN [ret |-> FALSE, threw |-> FALSE, sessions |-> sessions, streams |-> streams,
          attempted |-> {}, failed |-> {}]
    ELSE LET r == Notify(sessions[id].listeners, UpdateChunk(text),
                         [listeners |-> sessions[id].listeners, streams |-> streams,
                          attempted |-> {}, failed |-> {}, threw |-> FALSE])
         IN [ret |-> TRUE, threw |-> r.threw,
             sessions |-> [sessions EXCEPT ![id].listeners = r.listeners],
             streams |-> r.streams,
             attempted |-> r.attempted, failed |-> r.failed]

\* updateSession that stores the text in every session of the Map
updateSessionAll(id, text) ==
    IF ~HasSession(id)
    THEN [ret |-> FALSE, threw |-> FALSE, sessions |-> sessions, streams |-> streams,
          attempted |-> {}, failed |-> {}]
    ELSE LET r == Notify(sessions[id].listeners, UpdateChunk(text),
                         [listeners |-> sessions[id].listeners, streams |-> streams,
                          attempted |-> {}, failed |-> {}, threw |-> FALSE])
         IN [ret |-> TRUE, threw |-> r.threw,
             sessions |-> [i \in DOMAIN sessions |->
                             IF i = id
                             THEN [sessions[i] EXCEPT !.text = text,
                                                      !.listeners = r.listeners]
                             ELSE [sessions[i] EXCEPT !.text = text]],
             streams |-> r.streams,
             attempted |-> r.attempted, failed |-> r.failed]

\* an updateSession that returns early, before storing the text, when the
\* session has no listener to notify
updateSessionIfHeard(id, text) ==
    IF ~HasSession(id)
    THEN [ret |-> FALSE, threw |-> FALSE, sessions |-> sessions, streams |-> streams,
          attempted |-> {}, failed |-> {}]
    ELSE IF sessions[id].listeners = <<>>
    THEN [ret |-> TRUE, threw |-> FALSE, sessions |-> sessions, streams |-> streams,
          attempted |-> {}, failed |-> {}]
    ELSE LET r == Notify(sessions[id].listeners, UpdateChunk(text),
                         [listeners |-> sessions[id].listeners, streams |-> streams,
                          attempted |-> {}, failed |-> {}, threw |-> FALSE])
         IN [ret |-> TRUE, threw |-> r.threw,
             sessions |-> [sessions EXCEPT ![id].text = text,
                                           ![id].listeners = r.listeners],
             streams |-> r.streams,
             attempted |-> r.attempted, failed |-> r.failed]

\* an updateSession that stores the text under an id it does not know
updateSessionUpsert(id, text) ==
    IF ~HasSession(id)
    THEN [ret |-> TRUE, threw |-> FALSE,
          sessions |-> sessions @@ (id :> [text |-> text, createdAt |-> now,
                                           listeners |-> <<>>]),
          streams |-> streams, attempted |-> {}, failed |-> {}]
    ELSE LET r == Notify(sessions[id].listeners, UpdateChunk(text),
                         [listeners |-> sessions[id].listeners, streams |-> streams,
                          attempted |-> {}, failed |-> {}, threw |-> FALSE])
         IN [ret |-> TRUE, threw |-> r.threw,
             sessions |-> [sessions EXCEPT ![id].text = text,
                                           ![id].listeners = r.listeners],
             streams |-> r.streams,
             attempted |-> r.attempted, failed |-> r.failed]

\* updateSession(id, text): false without a session; else sets the text,
\* notifies the listeners and returns true
updateSession(id, text) ==
    IF ~HasSession(id)
    THEN [ret |-> FALSE, threw |-> FALSE, sessions |-> sessions, streams |-> streams,
          attempted |-> {}, failed |-> {}]
    ELSE LET r == Notify(sessions[id].listeners, UpdateChunk(text),
                         [listeners |-> sessions[id].listeners, streams |-> streams,
                          attempted |-> {}, failed |-> {}, threw |-> FALSE])
         IN [ret |-> TRUE, threw |-> r.threw,
             sessions |-> [sessions EXCEPT ![id].text = text,
                                           ![id].listeners = r.listeners],
             streams |-> r.streams,
             attempted |-> r.attempted, failed |-> r.failed]

\* addListener(id, controller)
addListener(ss, id, h) ==
    IF id \in DOMAIN ss
    THEN [ss EXCEPT ![id].listeners = SetAdd(@, h)]
    ELSE ss

\* what addListener returns: false without a session, else true
addListenerResult(ss, id) == id \in DOMAIN ss

\* a removeListener that makes the entry it does not find
removeListenerUpsert(ss, id, h) ==
    IF id \in DOMAIN ss
    THEN [ss EXCEPT ![id].listeners = Without(@, h)]
    ELSE ss @@ (id :> [text |-> Empty, createdAt |-> now, listeners |-> <<>>])

\* a removeListener that clears the Set
removeListenerClear(ss, id, h) ==
    IF id \in DOMAIN ss
    THEN [ss EXCEPT ![id].listeners = <<>>]
    ELSE ss

\* removeListener(id, controller)
removeListener(ss, id, h) ==
    IF id \in DOMAIN ss
    THEN [ss EXCEPT ![id].listeners = Without(@, h)]
    ELSE ss

\* the inner forEach of cleanupOldSessions: close every listener
RECURSIVE CloseAll(_, _)
CloseAll(todo, st) ==
    IF todo = <<>> THEN st
    ELSE CloseAll(Tail(todo), Close(st, Head(todo)))

\* age of a session in minutes (the clock counts half hours)
AgeMinutes(s) == (now - s.createdAt) * 30

\* a comparison that spares a session somebody listens to
ExpiredIfIdle(s, maxAgeMinutes) ==
    AgeMinutes(s) > maxAgeMinutes /\ s.listeners = <<>>

\* a comparison that also removes a session exactly maxAgeMinutes old
ExpiredInclusive(s, maxAgeMinutes) == AgeMinutes(s) >= maxAgeMinutes
Expired(s, maxAgeMinutes) == AgeMinutes(s) > maxAgeMinutes

\* the Map's entries in insertion order (ids are handed out in order)
RECURSIVE Entries(_, _)
Entries(ss, i) ==
    IF i > nextId THEN <<>>
    ELSE IF i \in DOMAIN ss THEN <<i>> \o Entries(ss, i + 1)
    ELSE Entries(ss, i + 1)

\* a loop that closes the listeners of every session it visits and
\* deletes the expired ones
RECURSIVE SweepClosesAll(_, _, _)
SweepClosesAll(todo, maxAgeMinutes, acc) ==
    IF todo = <<>> THEN acc
    ELSE LET id == Head(todo)
             s == acc.sessions[id]
         IN IF Expired(s, maxAgeMinutes)
            THEN SweepClosesAll(Tail(todo), maxAgeMinutes,
                                [sessions |-> MapDelete(acc.sessions, id),
                                 streams |-> CloseAll(s.listeners, acc.streams),
                                 cleaned |-> acc.cleaned + 1])
            ELSE SweepClosesAll(Tail(todo), maxAgeMinutes,
                                [acc EXCEPT !.streams = CloseAll(s.listeners, @)])

\* a loop whose iterator loses its place on a delete and skips the entry
\* after the deleted one
RECURSIVE SweepSkipsAfterDelete(_, _, _)
SweepSkipsAfterDelete(todo, maxAgeMinutes, acc) ==
    IF todo = <<>> THEN acc
    ELSE LET id == Head(todo)
             s == acc.sessions[id]
         IN IF Expired(s, maxAgeMinutes)
            THEN SweepSkipsAfterDelete(
                       IF Len(todo) >= 2 THEN Tail(Tail(todo)) ELSE <<>>,
                       maxAgeMinutes,
                       [sessions |-> MapDelete(acc.sessions, id),
                        streams |-> CloseAll(s.listeners, acc.streams),
                        cleaned |-> acc.cleaned + 1])
            ELSE SweepSkipsAfterDelete(Tail(todo), maxAgeMinutes, acc)

\* the loop of cleanupOldSessions over the entries
RECURSIVE Sweep(_, _, _)
Sweep(todo, maxAgeMinutes, acc) ==
    IF todo = <<>> THEN acc
    ELSE LET id == Head(todo)
             s == acc.sessions[id]
         IN IF Expired(s, maxAgeMinutes)
            THEN Sweep(Tail(todo), maxAgeMinutes,
                       [sessions |-> MapDelete(acc.sessions, id),
                        streams |-> CloseAll(s.listeners, acc.streams),
                        cleaned |-> acc.cleaned + 1])
            ELSE Sweep(Tail(todo), maxAgeMinutes, acc)

\* cleanupOldSessions(maxAgeMinutes): returns the number of sessions removed
cleanupOldSessions(maxAgeMinutes) ==
    Sweep(Entries(sessions, 1), maxAgeMinutes,
          [sessions |-> sessions, streams |-> streams, cleaned |-> 0])

\* ---------------------------------------------- POST /api/session/[id]
Answer(status, text, r) ==
    [status |-> status, text |-> text, sessions |-> r.sessions, streams |-> r.streams,
     attempted |-> r.attempted, failed |-> r.failed]

Untouched ==
    [sessions |-> sessions, streams |-> streams, attempted |-> {}, failed |-> {}]

\* a handler without the lookup: it relies on updateSession, whose result
\* it does not read
PublishEndpointNoLookup(id, body) ==
    IF body.kind = "malformed" THEN Answer(500, Empty, Untouched)
    ELSE IF body.kind # "string" \/ ~Truthy(body.chars) THEN Answer(400, Empty, Untouched)
    ELSE IF ~Truthy(Trim(body.chars)) THEN Answer(400, Empty, Untouched)
    ELSE LET r == updateSession(id, Trim(body.chars))
         IN IF r.threw THEN Answer(500, Trim(body.chars), r)
            ELSE Answer(200, Trim(body.chars), r)

\* a handler without the check of the trimmed text
PublishEndpointNoBlankCheck(id, body) ==
    IF body.kind = "malformed" THEN Answer(500, Empty, Untouched)
    ELSE IF body.kind # "string" \/ ~Truthy(body.chars) THEN Answer(400, Empty, Untouched)
    ELSE IF ~HasSession(id) THEN Answer(404, Empty, Untouched)
    ELSE LET r == updateSession(id, Trim(body.chars))
         IN IF r.threw THEN Answer(500, Trim(body.chars), r)
            ELSE Answer(200, Trim(body.chars), r)

\* the publish handler: 500 when request.json() throws, 400 for a text that
\* is absent, empty or no string, 404 without a session, 400 for a blank
\* text, else updateSession with the trimmed text (its result unused) and
\* 200; an error escaping updateSession would end in the handler's catch
PublishEndpoint(id, body) ==
    IF body.kind = "malformed" THEN Answer(500, Empty, Untouched)
    ELSE IF body.kind # "string" \/ ~Truthy(body.chars) THEN Answer(400, Empty, Untouched)
    ELSE IF ~HasSession(id) THEN Answer(404, Empty, Untouched)
    ELSE IF ~Truthy(Trim(body.chars)) THEN Answer(400, Empty, Untouched)
    ELSE LET r == updateSession(id, Trim(body.chars))
         IN IF r.threw THEN Answer(500, Trim(body.chars), r)
            ELSE Answer(200, Trim(body.chars), r)

PublishReq(id, body) ==
    LET a == PublishEndpoint(id, body) IN
    /\ StepIf(a.status = 200 \/ a.sessions # sessions \/ a.streams # streams)
    /\ sessions' = a.sessions
    /\ streams' = a.streams
    /\ lastPub' = IF a.status = 200 THEN [lastPub EXCEPT ![id] = a.text] ELSE lastPub
    /\ UNCHANGED <<nextId, now, lastReap, page>>

\* an existence check that goes by the ids handed out, not by the Map
ExistsEndpointStale(id) ==
    IF id > nextId
    THEN [status |-> 404, exists |-> FALSE, hasText |-> FALSE, createdAt |-> 0]
    ELSE IF ~HasSession(id)
    THEN [status |-> 200, exists |-> TRUE, hasText |-> FALSE, createdAt |-> 0]
    ELSE [status |-> 200, exists |-> TRUE, hasText |-> Len(sessions[id].text) > 0,
          createdAt |-> sessions[id].createdAt]

\* an existence check that reports hasText for every session
ExistsEndpointHasText(id) ==
    IF ~HasSession(id)
    THEN [status |-> 404, exists |-> FALSE, hasText |-> FALSE, createdAt |-> 0]
    ELSE [status |-> 200, exists |-> TRUE, hasText |-> TRUE,
          createdAt |-> sessions[id].createdAt]

\* --------------------------------------------------- GET /api/session/[id]
\* the existence check: 404 exists:false, else exists:true with hasText
ExistsEndpoint(id) ==
    IF ~HasSession(id)
    THEN [status |-> 404, exists |-> FALSE, hasText |-> FALSE, createdAt |-> 0]
    ELSE [status |-> 200, exists |-> TRUE, hasText |-> Len(sessions[id].text) > 0,
          createdAt |-> sessions[id].createdAt]

ExistsReq(id) ==
    /\ ExistsEndpoint(id).status \in {200, 404}
    /\ UNCHANGED vars

\* a handler whose catch deletes the session it has inserted
CreateEndpointRollback(encoderOk) ==
    [status |-> IF encoderOk THEN 200 ELSE 500,
     sessionId |-> nextId + 1,
     sessions |-> IF encoderOk THEN createSession(nextId + 1) ELSE sessions]

\* a handler that answers 200 without the image when the encoder throws
CreateEndpointSwallow(encoderOk) ==
    [status |-> 200,
     sessionId |-> nextId + 1,
     sessions |-> createSession(nextId + 1)]

\* ------------------------------------------------------ POST /api/session
\* createSession, then the QR image; a failing encoder answers 500 after
\* the session has been inserted
CreateEndpoint(encoderOk) ==
    [status |-> IF encoderOk THEN 200 ELSE 500,
     sessionId |-> nextId + 1,
     sessions |-> createSession(nextId + 1)]

CreateReq(encoderOk) ==
    /\ nextId < MaxSessions
    /\ Step
    /\ nextId' = CreateEndpoint(encoderOk).sessionId
    /\ sessions' = CreateEndpoint(encoderOk).sessions
    /\ lastPub' = lastPub @@ (nextId + 1 :> Empty)
    /\ UNCHANGED <<streams, now, lastReap, page>>

\* --------------------------------------------- GET /api/session/[id]/stream
\* start(controller) that never sends the text held
StreamStartNoSnapshot(id, c) ==
    LET h == Controller(c)
        s0 == [streams EXCEPT ![c] = [IdleStream EXCEPT !.opened = TRUE, !.sid = id,
                                                       !.snap = sessions[id].text]]
        s1 == Enqueue(s0, h, ConnectedChunk(id))
    IN [sessions |-> addListener(sessions, id, h),
        streams |-> [s1 EXCEPT ![c].timer = TRUE]]

\* start(controller) that sends the text held before the connected message
StreamStartTextFirst(id, c) ==
    LET h == Controller(c)
        s0 == [streams EXCEPT ![c] = [IdleStream EXCEPT !.opened = TRUE, !.sid = id,
                                                       !.snap = sessions[id].text]]
        s1 == IF Truthy(sessions[id].text)
              THEN Enqueue(s0, h, SnapshotChunk(sessions[id].text))
              ELSE s0
        s2 == Enqueue(s1, h, ConnectedChunk(id))
    IN [sessions |-> addListener(sessions, id, h),
        streams |-> [s2 EXCEPT ![c].timer = TRUE]]

\* start(controller) that leaves the registration of the controller out
StreamStartNoListen(id, c) ==
    LET h == Controller(c)
        s0 == [streams EXCEPT ![c] = [IdleStream EXCEPT !.opened = TRUE, !.sid = id,
                                                       !.snap = sessions[id].text]]
        s1 == Enqueue(s0, h, ConnectedChunk(id))
        s2 == IF Truthy(sessions[id].text)
              THEN Enqueue(s1, h, SnapshotChunk(sessions[id].text))
              ELSE s1
    IN [sessions |-> sessions,
        streams |-> [s2 EXCEPT ![c].timer = TRUE]]

\* start(controller): the connected message, the text held if any, then
\* addListener, the keepalive interval and the abort listener
StreamStart(id, c) ==
    LET h == Controller(c)
        s0 == [streams EXCEPT ![c] = [IdleStream EXCEPT !.opened = TRUE, !.sid = id,
                                                       !.snap = sessions[id].text]]
        s1 == Enqueue(s0, h, ConnectedChunk(id))
        s2 == IF Truthy(sessions[id].text)
              THEN Enqueue(s1, h, SnapshotChunk(sessions[id].text))
              ELSE s1
    IN [sessions |-> addListener(sessions, id, h),
        streams |-> [s2 EXCEPT ![c].timer = TRUE]]

\* a stream handler that looks the session up inside start(), after the
\* connected message and the keepalive interval
StreamEndpointLateCheck(id, c) ==
    IF ~HasSession(id)
    THEN [status |-> 404, sessions |-> sessions,
          streams |-> [Enqueue([streams EXCEPT ![c].opened = TRUE, ![c].sid = id],
                               Controller(c), ConnectedChunk(id))
                       EXCEPT ![c].timer = TRUE]]
    ELSE [status |-> 200, sessions |-> StreamStart(id, c).sessions,
          streams |-> StreamStart(id, c).streams]

\* the stream handler: 404 without a session, else the stream is started
StreamEndpoint(id, c) ==
    IF ~HasSession(id)
    THEN [status |-> 404, sessions |-> sessions, streams |-> streams]
    ELSE [status |-> 200, sessions |-> StreamStart(id, c).sessions,
          streams |-> StreamStart(id, c).streams]

\* stream instances are numbered in the order they are opened
NextChan == Cardinality({ c \in Chans : streams[c].opened }) + 1

StreamReq(id) ==
    /\ NextChan \in Chans
    /\ StepIf(StreamEndpoint(id, NextChan).status = 200)
    /\ sessions' = StreamEndpoint(id, NextChan).sessions
    /\ streams' = StreamEndpoint(id, NextChan).streams
    /\ UNCHANGED <<nextId, now, lastReap, lastPub, page>>

\* a callback whose catch leaves the interval set
KeepaliveCallbackNoClear(c) ==
    IF CanEnqueue(streams, Controller(c))
    THEN [threw |-> FALSE, streams |-> Enqueue(streams, Controller(c), KeepaliveChunk)]
    ELSE [threw |-> FALSE, streams |-> streams]

\* the keepalive interval callback: enqueue the comment; when that throws,
\* the catch clears the interval
KeepaliveCallback(c) ==
    IF CanEnqueue(streams, Controller(c))
    THEN [threw |-> FALSE, streams |-> Enqueue(streams, Controller(c), KeepaliveChunk)]
    ELSE [threw |-> FALSE, streams |-> [streams EXCEPT ![c].timer = FALSE]]

KeepaliveTick(c) ==
    /\ streams[c].timer
    /\ Step
    /\ streams' = KeepaliveCallback(c).streams
    /\ UNCHANGED <<sessions, nextId, now, lastReap, lastPub, page>>

\* the abort listener of request.signal: clearInterval, removeListener of
\* the controller, controller.close() with its error swallowed
AbortHandler(c) ==
    [sessions |-> removeListener(sessions, streams[c].sid, Controller(c)),
     streams |-> [Close(streams, Controller(c)) EXCEPT ![c].timer = FALSE]]

Abort(c) ==
    /\ streams[c].opened
    /\ Step
    /\ sessions' = AbortHandler(c).sessions
    /\ streams' = AbortHandler(c).streams
    /\ UNCHANGED <<nextId, now, lastReap, lastPub, page>>

\* cancel() of the underlying source: the stream is cancelled (closed) and
\* removeListener is given the stream object, not the controller
CancelHandler(c) ==
    [sessions |-> removeListener(sessions, streams[c].sid, StreamObject(c)),
     streams |-> [streams EXCEPT ![c].closed = TRUE]]

Cancel(c) ==
    /\ streams[c].opened
    /\ Step
    /\ sessions' = CancelHandler(c).sessions
    /\ streams' = CancelHandler(c).streams
    /\ UNCHANGED <<nextId, now, lastReap, lastPub, page>>

\* ------------------------------------------------------------- the reaper
\* an interval of an hour
ReaperDueHourly == (now - lastReap) * 30 >= 2 * ReaperPeriodMinutes

ReaperDue == (now - lastReap) * 30 >= ReaperPeriodMinutes

\* setInterval(() => cleanupOldSessions(60), 30 minutes)
Reaper ==
    /\ ReaperDue
    /\ sessions' = cleanupOldSessions(ReaperMaxAgeMinutes).sessions
    /\ streams' = cleanupOldSessions(ReaperMaxAgeMinutes).streams
    /\ lastPub' = [i \in DOMAIN sessions' |-> lastPub[i]]
    /\ lastReap' = now
    /\ UNCHANGED <<nextId, now, steps, page>>

\* half an hour passes; a due reaper run comes first
Advance ==
    /\ now < MaxTicks
    /\ ~ReaperDue
    /\ now' = now + 1
    /\ UNCHANGED <<sessions, nextId, streams, lastReap, lastPub, steps, page>>

Next ==
    \/ \E ok \in BOOLEAN : CreateReq(ok)
    \/ \E id \in Ids, body \in Bodies : PublishReq(id, body)
    \/ \E id \in Ids : ExistsReq(id)
    \/ \E id \in Ids : StreamReq(id)
    \/ \E c \in Chans : KeepaliveTick(c)
    \/ \E c \in Chans : Abort(c)
    \/ \E c \in Chans : Cancel(c)
    \/ Reaper
    \/ Advance

Spec == Init /\ [][Next]_vars

\* ------------------------------------------- cleanupOldSessions, called
\* the maxAgeMinutes a caller of the exported cleanupOldSessions passes
SweepAges == {0, 30}

\* a call of cleanupOldSessions(maxAgeMinutes) from outside the interval
CleanupCall(maxAgeMinutes) ==
    /\ sessions' = cleanupOldSessions(maxAgeMinutes).sessions
    /\ streams' = cleanupOldSessions(maxAgeMinutes).streams
    /\ lastPub' = [i \in DOMAIN sessions' |-> lastPub[i]]
    /\ UNCHANGED <<nextId, now, lastReap, steps, page>>

NextSweep ==
    \/ Next
    \/ \E maxAgeMinutes \in SweepAges : CleanupCall(maxAgeMinutes)

SpecSweep == Init /\ [][NextSweep]_vars

\* ------------------------------------------------ timers that keep firing
\* a tick of the keepalive interval whose enqueue throws: the catch clears
\* the interval and nothing is emitted
KeepaliveFail(c) ==
    /\ streams[c].timer
    /\ ~CanEnqueue(streams, Controller(c))
    /\ streams' = KeepaliveCallback(c).streams
    /\ UNCHANGED <<sessions, nextId, now, lastReap, lastPub, steps, page>>

\* time goes on past MaxTicks while a session is left in the Map
AdvanceLate ==
    /\ now >= MaxTicks
    /\ ~ReaperDue
    /\ DOMAIN sessions # {}
    /\ now' = now + 1
    /\ UNCHANGED <<sessions, nextId, streams, lastReap, lastPub, steps, page>>

\* requests come during the first MaxTicks half hours and leave one step
\* of the budget unused; the intervals and the clock go on after that
NextLive ==
    \/ steps + 1 < MaxSteps /\ now <= MaxTicks /\ Next
    \/ Reaper
    \/ Advance
    \/ AdvanceLate
    \/ \E c \in Chans : KeepaliveFail(c)

\* setInterval callbacks run when they are due, and time passes
Live ==
    /\ WF_vars(Reaper)
    /\ WF_vars(Advance)
    /\ WF_vars(AdvanceLate)
    /\ \A c \in Chans : WF_vars(KeepaliveFail(c))

SpecLive == Init /\ [][NextLive]_vars /\ Live

\* ------------------------------------------------- the desktop page, run
\* what eventSourceRef.current.close() does at the server: the request of
\* an open stream is aborted; a stream not yet served is never seen
CloseEventSource ==
    IF page.es = "open"
    THEN [sessions |-> AbortHandler(page.esChan).sessions,
          streams |-> AbortHandler(page.esChan).streams]
    ELSE [sessions |-> sessions, streams |-> streams]

\* generateQRCode up to its await: the flags, the error cleared, the
\* EventSource closed and forgotten, the POST /api/session sent
generateQRCode ==
    [page EXCEPT !.fetching = TRUE, !.error = FALSE,
                 !.es = "none", !.esId = 0, !.esChan = 0]

\* the first render and its effects: useEffect(() => generateQRCode(),
\* [generateQRCode]) runs with sessionInfo null
PageMount ==
    /\ ~page.mounted
    /\ Step
    /\ page' = [generateQRCode EXCEPT !.mounted = TRUE, !.ran = 0, !.own = 1]
    /\ UNCHANGED <<sessions, nextId, streams, now, lastReap, lastPub>>

\* a render gave a new generateQRCode (its dependency sessionInfo changed),
\* so the effect that depends on generateQRCode runs again
MountEffect ==
    /\ page.mounted
    /\ page.ran # page.sessionInfo
    /\ Step
    /\ sessions' = CloseEventSource.sessions
    /\ streams' = CloseEventSource.streams
    /\ page' = [generateQRCode EXCEPT !.ran = page.sessionInfo, !.own = @ + 1]
    /\ UNCHANGED <<nextId, now, lastReap, lastPub>>

\* a click on Try again (error and no sessionInfo) or on New (sessionInfo,
\* not loading, not regenerating), once the effects of the render have run
ClickGenerate ==
    /\ page.mounted
    /\ ~page.fetching
    /\ page.ran = page.sessionInfo
    /\ (page.error /\ page.sessionInfo = 0) \/ page.sessionInfo # 0
    /\ Step
    /\ sessions' = CloseEventSource.sessions
    /\ streams' = CloseEventSource.streams
    /\ page' = generateQRCode
    /\ UNCHANGED <<nextId, now, lastReap, lastPub>>

\* the POST is served and generateQRCode goes on after its await: on 200
\* setSessionInfo(data) and connectToStream(data.sessionId), which makes
\* the EventSource; otherwise setError. finally clears the flags
FetchSettles(encoderOk) ==
    /\ page.fetching
    /\ nextId < MaxSessions
    /\ Step
    /\ nextId' = CreateEndpoint(encoderOk).sessionId
    /\ sessions' = CreateEndpoint(encoderOk).sessions
    /\ lastPub' = lastPub @@ (nextId + 1 :> Empty)
    /\ page' = IF CreateEndpoint(encoderOk).status = 200
               THEN [page EXCEPT !.fetching = FALSE,
                                 !.sessionInfo = CreateEndpoint(encoderOk).sessionId,
                                 !.es = "connecting",
                                 !.esId = CreateEndpoint(encoderOk).sessionId]
               ELSE [page EXCEPT !.fetching = FALSE, !.error = TRUE]
    /\ UNCHANGED <<streams, now, lastReap>>

\* the GET of the EventSource is served: the stream opens, or a 404 fires
\* onerror, which closes the EventSource
EventSourceOpens ==
    /\ page.es = "connecting"
    /\ NextChan \in Chans
    /\ Step
    /\ sessions' = StreamEndpoint(page.esId, NextChan).sessions
    /\ streams' = StreamEndpoint(page.esId, NextChan).streams
    /\ page' = IF StreamEndpoint(page.esId, NextChan).status = 200
               THEN [page EXCEPT !.es = "open", !.esChan = NextChan]
               ELSE [page EXCEPT !.es = "closed"]
    /\ UNCHANGED <<nextId, now, lastReap, lastPub>>

\* the server ended the stream: onerror closes the EventSource
EventSourceError ==
    /\ page.es = "open"
    /\ streams[page.esChan].closed
    /\ page' = [page EXCEPT !.es = "closed"]
    /\ UNCHANGED <<sessions, nextId, streams, now, lastReap, lastPub, steps>>

\* one desktop page, the phones that publish, the intervals and the clock
NextPage ==
    \/ PageMount
    \/ MountEffect
    \/ ClickGenerate
    \/ \E ok \in BOOLEAN : FetchSettles(ok)
    \/ EventSourceOpens
    \/ EventSourceError
    \/ \E id \in Ids, body \in Bodies : PublishReq(id, body)
    \/ \E c \in Chans : KeepaliveTick(c)
    \/ Reaper
    \/ Advance

SpecPage == Init /\ [][NextPage]_vars

\* ================================================================ claims
Listeners(id) == SeqToSet(sessions[id].listeners)

\* a publish request the endpoint accepts: a string, not blank after trim
Publishable(body) == body.kind = "string" /\ Truthy(Trim(body.chars))

\* this step is an accepted publish of body to the existing session id
\* (the conjuncts before PublishReq follow from it; they come first so that
\* steps of other handlers are told apart early)
PublishStep(id, body) ==
    /\ steps' = steps + 1
    /\ now' = now
    /\ HasSession(id)
    /\ Publishable(body)
    /\ id \in DOMAIN lastPub'
    /\ lastPub'[id] = Trim(body.chars)
    /\ PublishReq(id, body)

\* this step opens a stream on the existing session id
StreamStep(id) ==
    /\ steps' = steps + 1
    /\ HasSession(id)
    /\ NextChan \in Chans
    /\ streams'[NextChan].opened
    /\ StreamReq(id)

\* stream c took exactly one more chunk in this step
TookOne(c, chunk) ==
    streams'[c].emitted = Append(streams[c].emitted, chunk)

\* C1: a publish applied to an existing session sets the session's text to
\* the published text, and every controller listed for that session whose
\* stream is not closed takes exactly one value chunk with that text in
\* the same step.
C1_PublishSetsAndDelivers ==
    [][\A id \in Ids, body \in Bodies :
         PublishStep(id, body)
         => /\ sessions'[id].text = Trim(body.chars)
            /\ \A c \in Chans :
                 (Controller(c) \in Listeners(id) /\ ~streams[c].closed)
                 => /\ TookOne(c, UpdateChunk(Trim(body.chars)))
                    /\ IsValueEvent(streams'[c].emitted[Len(streams'[c].emitted)])
       ]_vars

C1_Witness ==
    \E id \in DOMAIN sessions, c \in Chans :
        /\ Controller(c) \in Listeners(id)
        /\ Truthy(sessions[id].text)
        /\ Len(streams[c].emitted) >= 2
        /\ streams[c].emitted[Len(streams[c].emitted)] = UpdateChunk(sessions[id].text)

\* the chunks of an opened stream after the connected message and the
\* snapshot: updates pushed by publishes and keepalive comments
IsLiveChunk(ch) ==
    \/ ch = KeepaliveChunk
    \/ /\ IsValueEvent(ch)
       /\ ch = UpdateChunk(ch.json.text)

\* C2: a stream that was opened emits first one connected message with the
\* session id, then the text held at connect time exactly when it was not
\* empty, then only updates and keepalive comments; a stream that was not
\* opened has emitted nothing.
C2_StreamOrder ==
    \A c \in Chans :
        LET e == streams[c].emitted
            k == IF Truthy(streams[c].snap) THEN 2 ELSE 1
        IN IF ~streams[c].opened THEN e = <<>>
           ELSE /\ Len(e) >= k
                /\ e[1] = ConnectedChunk(streams[c].sid)
                /\ Truthy(streams[c].snap) => e[2] = SnapshotChunk(streams[c].snap)
                /\ \A i \in (k + 1)..Len(e) : IsLiveChunk(e[i])

C2_Witness ==
    \E c \in Chans :
        /\ Truthy(streams[c].snap)
        /\ Len(streams[c].emitted) = 4
        /\ \E i \in 3..4 : streams[c].emitted[i] = KeepaliveChunk
        /\ \E i \in 3..4 : IsValueEvent(streams[c].emitted[i])

\* C3: a stream opened on a session after its last successful publish
\* starts with the connected message and the text of that last publish,
\* and with nothing else.
C3_SnapshotIsLastPublish ==
    [][\A id \in Ids :
         (StreamStep(id) /\ Truthy(lastPub[id]))
         => streams'[NextChan].emitted =
                <<ConnectedChunk(id), SnapshotChunk(lastPub[id])>>
       ]_vars

C3_Witness ==
    \E id \in DOMAIN sessions, c \in Chans, d \in Chans :
        /\ streams[c].opened /\ streams[c].sid = id
        /\ streams[d].opened /\ streams[d].sid = id
        /\ Len(streams[c].emitted) = 3
        /\ streams[c].emitted[3] = UpdateChunk(lastPub[id])
        /\ streams[c].emitted[2] # streams[c].emitted[3]
        /\ streams[d].emitted = <<ConnectedChunk(id), SnapshotChunk(lastPub[id])>>

\* C4: a publish to one session leaves every other session as it was, and
\* no stream opened for another session takes a chunk.
C4_PublishIsolated ==
    [][\A id \in Ids, body \in Bodies :
         PublishStep(id, body)
         => /\ DOMAIN sessions' = DOMAIN sessions
            /\ \A b \in DOMAIN sessions \ {id} : sessions'[b] = sessions[b]
            /\ \A c \in Chans : streams[c].sid # id => streams'[c] = streams[c]
       ]_vars

C4_Witness ==
    \E a \in DOMAIN sessions, b \in DOMAIN sessions, c \in Chans, d \in Chans :
        /\ a # b
        /\ Controller(c) \in Listeners(a)
        /\ Controller(d) \in Listeners(b)
        /\ Truthy(sessions[a].text)
        /\ streams[c].emitted = <<ConnectedChunk(a), UpdateChunk(sessions[a].text)>>
        /\ sessions[b].text = Empty
        /\ streams[d].emitted = <<ConnectedChunk(b)>>

\* C5: in a publish, every listed controller whose enqueue fails is
\* removed from the session's listeners, and every other listed controller
\* still takes the update of that publish, wherever the failing one stands
\* in the iteration.
C5_FailureIsLocal ==
    [][\A id \in Ids, body \in Bodies :
         PublishStep(id, body)
         => \A c \in Chans :
              Controller(c) \in Listeners(id)
              => IF streams[c].closed
                 THEN Controller(c) \notin SeqToSet(sessions'[id].listeners)
                 ELSE /\ Controller(c) \in SeqToSet(sessions'[id].listeners)
                      /\ TookOne(c, UpdateChunk(Trim(body.chars)))
       ]_vars

\* stream c was closed without the abort handler (its timer still runs)
\* and a publish has dropped it from its live session
DroppedByPublish(id, c) ==
    /\ streams[c].opened /\ streams[c].sid = id
    /\ streams[c].closed /\ streams[c].timer
    /\ Controller(c) \notin Listeners(id)

C5_Witness ==
    \E id \in DOMAIN sessions, c \in Chans, d \in Chans :
        /\ c < d
        /\ DroppedByPublish(id, c)
        /\ Controller(d) \in Listeners(id)
        /\ streams[d].emitted = <<ConnectedChunk(id), UpdateChunk(sessions[id].text)>>

\* C6: a publish of non-blank text to an existing session is answered with
\* success, updateSession returns true and the text is stored, also when
\* the enqueue fails on some or all of the listeners.
C6_PublishNeverFails ==
    \A id \in DOMAIN sessions, body \in Bodies :
        Publishable(body)
        => /\ PublishEndpoint(id, body).status = 200
           /\ updateSession(id, Trim(body.chars)).ret
           /\ ~updateSession(id, Trim(body.chars)).threw
           /\ PublishEndpoint(id, body).sessions[id].text = Trim(body.chars)

C6_Witness ==
    \E id \in DOMAIN sessions, c \in Chans :
        /\ DroppedByPublish(id, c)
        /\ Listeners(id) = {}
        /\ Truthy(sessions[id].text)
        /\ lastPub[id] = sessions[id].text

\* controller c is listed in some session of the Map, in the next state
ListedNext(c) ==
    \E id \in DOMAIN sessions' : Controller(c) \in SeqToSet(sessions'[id].listeners)

\* C7: once a subscriber has disconnected, by the abort of its request or
\* by the cancellation of its stream, its controller is in no session's
\* listeners, so that no later publish tries an enqueue on it.
C7_DisconnectUnsubscribes ==
    [][\A c \in Chans :
         (Abort(c) \/ Cancel(c)) => ~ListedNext(c)
       ]_vars

\* C8: a stream that receives a cancellation signal, through the abort of
\* its request or through cancel(), has its keepalive timer stopped, its
\* controller removed from the listeners and its channel closed.
C8_CancellationCleansUp ==
    [][\A c \in Chans :
         (Abort(c) \/ Cancel(c))
         => /\ ~streams'[c].timer
            /\ ~ListedNext(c)
            /\ streams'[c].closed
       ]_vars

\* C9: a controller that is closed while listed in a session is no longer
\* listed there after the next publish to that session or the next run of
\* the sweep, whichever comes first.
C9_ClosedChannelDropped ==
    [][\A id \in Ids, c \in Chans :
         ( /\ HasSession(id)
           /\ Controller(c) \in Listeners(id)
           /\ streams[c].closed
           /\ \/ Reaper
              \/ \E body \in Bodies : PublishStep(id, body) )
         => ~ListedNext(c)
       ]_vars

\* C10: once a controller is closed, by the abort handler, by cancel() or
\* by the sweep, it stays closed and takes no further chunk: an update of
\* a publish and a keepalive comment both fail on it, and the failure is
\* caught (the publish is not answered with an error, the timer callback
\* throws nothing).
C10_NoDeliveryAfterClose ==
    [][\A c \in Chans :
         streams[c].closed
         => /\ streams'[c].closed
            /\ streams'[c].emitted = streams[c].emitted
            /\ KeepaliveTick(c) => ~KeepaliveCallback(c).threw
            /\ \A id \in Ids, body \in Bodies :
                 ( /\ HasSession(id)
                   /\ Controller(c) \in Listeners(id)
                   /\ Publishable(body)
                   /\ PublishReq(id, body) )
                 => /\ PublishEndpoint(id, body).status = 200
                    /\ Controller(c) \in PublishEndpoint(id, body).failed
       ]_vars

\* a stream closed by cancel() on which a keepalive tick has then failed:
\* its timer is cleared although it is still listed (the abort handler has
\* not run), and it holds the chunks it held when it was closed
C10_Witness ==
    \E id \in DOMAIN sessions, c \in Chans :
        /\ streams[c].opened /\ streams[c].sid = id
        /\ streams[c].closed /\ ~streams[c].timer
        /\ Controller(c) \in Listeners(id)
        /\ streams[c].emitted = <<ConnectedChunk(id)>>

\* an id nanoid has handed out whose session the sweep has removed
Evicted(id) == id <= nextId /\ id \notin DOMAIN sessions

\* C11: opening a stream, or addListener, for an id without a session
\* answers 404 (false): no chunk is emitted, no stream instance is opened,
\* no keepalive timer is started and no session's listeners change.
C11_StreamNotFound ==
    \A id \in Ids \ DOMAIN sessions, c \in Chans :
        /\ StreamEndpoint(id, c).status = 404
        /\ StreamEndpoint(id, c).streams = streams
        /\ StreamEndpoint(id, c).sessions = sessions
        /\ ~addListenerResult(sessions, id)
        /\ addListener(sessions, id, Controller(c)) = sessions

\* an id whose session was evicted while a stream was open on it, another
\* session being live, and a stream instance still free for the request
C11_Witness ==
    \E id \in Ids, c \in Chans :
        /\ Evicted(id)
        /\ streams[c].opened /\ streams[c].sid = id
        /\ DOMAIN sessions # {}
        /\ NextChan \in Chans

\* C12: publishing a non-blank text to an id without a session is answered
\* 404 (updateSession returns false); no session is created, no session's
\* text or listeners change, and no chunk reaches any stream.
C12_PublishNotFound ==
    \A id \in Ids \ DOMAIN sessions, body \in Bodies :
        Publishable(body) =>
            /\ PublishEndpoint(id, body).status = 404
            /\ PublishEndpoint(id, body).sessions = sessions
            /\ PublishEndpoint(id, body).streams = streams
            /\ ~updateSession(id, Trim(body.chars)).ret
            /\ ~updateSession(id, Trim(body.chars)).threw
            /\ updateSession(id, Trim(body.chars)).sessions = sessions
            /\ updateSession(id, Trim(body.chars)).streams = streams
            /\ updateSession(id, Trim(body.chars)).attempted = {}

\* an evicted id next to a live session that has an open, listed stream
C12_Witness ==
    \E id \in Ids, other \in DOMAIN sessions, c \in Chans :
        /\ Evicted(id)
        /\ Controller(c) \in Listeners(other)
        /\ ~streams[c].closed

\* a publish request whose text is absent, empty or whitespace-only
BlankText(body) ==
    \/ body.kind = "absent"
    \/ body.kind = "string" /\ ~Truthy(Trim(body.chars))

\* C13: a publish request whose text is absent, empty or whitespace-only
\* is rejected with the validation error (400); it changes no session's
\* text and delivers no chunk to any stream.
C13_BlankRejected ==
    \A id \in Ids, body \in Bodies :
        BlankText(body) =>
            /\ PublishEndpoint(id, body).status = 400
            /\ PublishEndpoint(id, body).sessions = sessions
            /\ PublishEndpoint(id, body).streams = streams

\* C14: every request whose text is absent or blank after trimming is
\* answered 400; 404 is answered only to a non-blank text for an id without
\* a session; the answer to a blank text is the same with and without a
\* session.
C14_ValidationBeforeLookup ==
    \A id \in Ids, body \in Bodies :
        /\ BlankText(body) => PublishEndpoint(id, body).status = 400
        /\ PublishEndpoint(id, body).status = 404
              => Publishable(body) /\ ~HasSession(id)
        /\ BlankText(body)
              => \A other \in Ids :
                    PublishEndpoint(other, body).status
                        = PublishEndpoint(id, body).status

\* the request bodies the endpoint accepts
PublishableBodies == {body \in Bodies : Publishable(body)}

\* C15: a publish of a non-blank text to a session without listeners is
\* answered 200, sets the session's text to the published text and puts a
\* chunk on no stream; a stream opened on the session right after it
\* emits the connected message and then that text as its snapshot.
C15_PublishWithoutListeners ==
    [][\A id \in Ids, body \in PublishableBodies :
         /\ (HasSession(id) /\ Listeners(id) = {})
              => PublishEndpoint(id, body).status = 200
         /\ (PublishStep(id, body) /\ Listeners(id) = {})
              => /\ sessions'[id].text = Trim(body.chars)
                 /\ sessions'[id].listeners = <<>>
                 /\ streams' = streams
                 /\ NextChan \in Chans
                      => (StreamEndpoint(id, NextChan).streams[NextChan].emitted)'
                            = <<ConnectedChunk(id), SnapshotChunk(Trim(body.chars))>>
       ]_vars

\* the only stream ever opened on a session started with the snapshot of
\* a text, so that text was published while the session had no listener
C15_Witness ==
    \E id \in DOMAIN sessions, c \in Chans :
        /\ streams[c].opened /\ streams[c].sid = id
        /\ \A d \in Chans \ {c} : ~(streams[d].opened /\ streams[d].sid = id)
        /\ Truthy(sessions[id].text)
        /\ streams[c].emitted
              = <<ConnectedChunk(id), SnapshotChunk(sessions[id].text)>>

\* the texts the page takes from the chunks e, in order
RECURSIVE ValueTexts(_)
ValueTexts(e) ==
    IF e = <<>> THEN <<>>
    ELSE IF IsValueEvent(Head(e)) THEN <<Head(e).json.text>> \o ValueTexts(Tail(e))
    ELSE ValueTexts(Tail(e))

\* s is a suffix of t
IsSuffix(s, t) ==
    /\ Len(s) <= Len(t)
    /\ s = SubSeq(t, Len(t) - Len(s) + 1, Len(t))

\* stream c is open on session id and listed there
Subscribed(c, id) ==
    /\ streams[c].opened /\ ~streams[c].closed /\ streams[c].sid = id
    /\ HasSession(id)
    /\ Controller(c) \in Listeners(id)

\* C16: publishes to one session are applied one after the other: the
\* session's text is the text of the publish applied last, every stream
\* subscribed to the session has taken each publish since it connected as
\* one whole value chunk ending with that last text, and the texts taken
\* by any two of its streams are in one order (one is a suffix of the
\* other).
C16_PublishesSerialized ==
    \A id \in DOMAIN sessions :
        /\ sessions[id].text = lastPub[id]
        /\ \A c \in Chans :
             Subscribed(c, id)
             => /\ \A i \in 1..Len(streams[c].emitted) :
                      IsValueEvent(streams[c].emitted[i])
                      => streams[c].emitted[i]
                           \in {SnapshotChunk(Trim(b.chars)) : b \in PublishableBodies}
                              \cup {UpdateChunk(Trim(b.chars)) : b \in PublishableBodies}
                /\ ValueTexts(streams[c].emitted) # <<>>
                     => ValueTexts(streams[c].emitted)[Len(ValueTexts(streams[c].emitted))]
                          = sessions[id].text
                /\ \A d \in Chans :
                      Subscribed(d, id)
                      => \/ IsSuffix(ValueTexts(streams[c].emitted),
                                     ValueTexts(streams[d].emitted))
                         \/ IsSuffix(ValueTexts(streams[d].emitted),
                                     ValueTexts(streams[c].emitted))

\* two streams subscribed to one session before two publishes of
\* different texts: both took the two texts, in the order applied
C16_Witness ==
    \E id \in DOMAIN sessions, c \in Chans, d \in Chans, a \in PublishableBodies,
       b \in PublishableBodies :
        /\ c # d /\ Trim(a.chars) # Trim(b.chars)
        /\ Subscribed(c, id) /\ Subscribed(d, id)
        /\ streams[c].emitted = <<ConnectedChunk(id), UpdateChunk(Trim(a.chars)),
                                   UpdateChunk(Trim(b.chars))>>
        /\ streams[d].emitted = streams[c].emitted
        /\ sessions[id].text = Trim(b.chars)

\* the sessions a call of cleanupOldSessions(maxAgeMinutes) finds expired
ExpiredIds(maxAgeMinutes) ==
    {id \in DOMAIN sessions : (now - sessions[id].createdAt) * 30 > maxAgeMinutes}

\* the statement of C17 as written: cleanupOldSessions(0) leaves no
\* session, one created at the instant of the call included, and every
\* listed controller closed
C17_SweepZeroEvictsAll ==
    /\ DOMAIN cleanupOldSessions(0).sessions = {}
    /\ \A id \in DOMAIN sessions, c \in Chans :
          Controller(c) \in Listeners(id) => cleanupOldSessions(0).streams[c].closed

\* C17: cleanupOldSessions(0) removes every session created before the
\* instant of the call and closes every controller listed for those
\* sessions; a session created at the instant of the call is kept as it
\* is, and its streams stay as they are.
C17_SweepZeroEvictsOlder ==
    LET r == cleanupOldSessions(0) IN
        /\ DOMAIN r.sessions = {id \in DOMAIN sessions : sessions[id].createdAt = now}
        /\ \A id \in DOMAIN r.sessions : r.sessions[id] = sessions[id]
        /\ \A id \in DOMAIN sessions \ DOMAIN r.sessions, c \in Chans :
              Controller(c) \in Listeners(id) => r.streams[c].closed
        /\ \A c \in Chans :
              /\ r.streams[c].emitted = streams[c].emitted
              /\ (\E id \in DOMAIN r.sessions : Controller(c) \in Listeners(id))
                    => r.streams[c] = streams[c]

\* half an hour after the start the first session is gone and its stream
\* is closed, which only cleanupOldSessions(0) does, while a session
\* created in this half hour is there with an open stream
C17_Witness ==
    \E old \in Ids, new \in DOMAIN sessions, c \in Chans, d \in Chans :
        /\ now = 1
        /\ Evicted(old)
        /\ streams[c].opened /\ streams[c].sid = old /\ streams[c].closed
        /\ sessions[new].createdAt = now
        /\ Subscribed(d, new)

\* C18: cleanupOldSessions(maxAgeMinutes) removes exactly the sessions
\* whose age is greater than maxAgeMinutes, closes every controller listed
\* for a removed session, leaves the other sessions and streams as they
\* are, and returns the number of sessions removed, also when several
\* sessions are removed in one pass over the Map.
C18_SweepRemovesExpired ==
    \A m \in SweepAges \cup {ReaperMaxAgeMinutes} :
        LET r == cleanupOldSessions(m) IN
            /\ DOMAIN r.sessions = DOMAIN sessions \ ExpiredIds(m)
            /\ \A id \in DOMAIN r.sessions : r.sessions[id] = sessions[id]
            /\ r.cleaned = Cardinality(ExpiredIds(m))
            /\ \A c \in Chans :
                  IF \E id \in ExpiredIds(m) : Controller(c) \in Listeners(id)
                  THEN r.streams[c] = [streams[c] EXCEPT !.closed = TRUE]
                  ELSE r.streams[c] = streams[c]

\* both sessions of the first half hour are gone half an hour later with
\* their streams closed: one call removed the two of them
C18_Witness ==
    \E c \in Chans, d \in Chans :
        /\ now = 1 /\ nextId = 2 /\ DOMAIN sessions = {}
        /\ streams[c].opened /\ streams[c].sid = 1 /\ streams[c].closed
        /\ streams[d].opened /\ streams[d].sid = 2 /\ streams[d].closed
        /\ streams[c].timer /\ streams[d].timer

\* the request bodies that parse as JSON
ParsedBodies == {body \in Bodies : body.kind # "malformed"}

\* in this state no request on any session is answered with the 500 of a
\* thrown error, and an evicted id is answered 404 by the publish, stream
\* and existence handlers, which change nothing
EvictedIsNotFound ==
    /\ \A id \in Ids, body \in ParsedBodies : PublishEndpoint(id, body).status # 500
    /\ \A c \in Chans : ~KeepaliveCallback(c).threw
    /\ \A id \in Ids :
          Evicted(id)
          => /\ \A body \in PublishableBodies :
                   /\ PublishEndpoint(id, body).status = 404
                   /\ PublishEndpoint(id, body).streams = streams
                   /\ PublishEndpoint(id, body).sessions = sessions
             /\ \A c \in Chans : StreamEndpoint(id, c).status = 404
             /\ ExistsEndpoint(id).status = 404
             /\ ~ExistsEndpoint(id).exists

\* in this step an evicted id stays without a session and the streams
\* that were opened on it take no value chunk
EvictedStaysSilent ==
    \A id \in Ids :
        Evicted(id)
        => /\ Evicted(id)'
           /\ \A c \in Chans :
                 (streams[c].opened /\ streams[c].sid = id)
                 => ValueTexts(streams'[c].emitted) = ValueTexts(streams[c].emitted)

\* C19: however calls of cleanupOldSessions interleave with publishes,
\* stream requests, aborts and cancellations on the same session, no
\* request is answered with the 500 of a thrown error; once a session is
\* evicted its id stays without a session, publish, stream and existence
\* requests for it are answered 404, and no stream that was opened on it
\* takes a value chunk.
C19_SweepInterleavesSafely ==
    []EvictedIsNotFound /\ [][EvictedStaysSilent]_vars

\* an evicted session whose stream had taken a published text, and whose
\* stream was then aborted or had its keepalive interval cleared
C19_Witness ==
    \E id \in Ids, c \in Chans :
        /\ Evicted(id)
        /\ streams[c].opened /\ streams[c].sid = id
        /\ streams[c].closed /\ ~streams[c].timer
        /\ ValueTexts(streams[c].emitted) # <<>>

\* C20: the steps of one session from end to end. After the create
\* request the existence check answers exists:true, hasText:false for the
\* new id; a stream opened on a session emits first the connected message
\* with that session's id; a publish of a text then puts one value chunk
\* with that text on the subscribed stream, and the existence check
\* answers exists:true, hasText:true.
C20_EndToEnd ==
    [][/\ \A ok \in BOOLEAN :
            (steps' = steps + 1 /\ nextId' = nextId + 1 /\ CreateReq(ok))
            => /\ CreateEndpoint(ok).sessionId = nextId'
               /\ (ExistsEndpoint(nextId).status)' = 200
               /\ (ExistsEndpoint(nextId).exists)'
               /\ ~(ExistsEndpoint(nextId).hasText)'
       /\ \A id \in Ids :
            StreamStep(id)
            => /\ IsConnectedEvent(streams'[NextChan].emitted[1])
               /\ streams'[NextChan].emitted[1].json.sessionId = id
               /\ \A i \in 2..Len(streams'[NextChan].emitted) :
                     ~IsConnectedEvent(streams'[NextChan].emitted[i])
       /\ \A id \in Ids, body \in PublishableBodies :
            PublishStep(id, body)
            => /\ \A c \in Chans :
                     Subscribed(c, id)
                     => /\ Len(streams'[c].emitted) = Len(streams[c].emitted) + 1
                        /\ IsValueEvent(streams'[c].emitted[Len(streams'[c].emitted)])
                        /\ streams'[c].emitted[Len(streams'[c].emitted)].json.text
                              = Trim(body.chars)
               /\ (ExistsEndpoint(id).status)' = 200
               /\ (ExistsEndpoint(id).exists)'
               /\ (ExistsEndpoint(id).hasText)'
      ]_vars

\* the scenario has run: a session holds a published text, and the stream
\* opened on it before the publish has emitted the connected message and
\* then the value chunk with that text
C20_Witness ==
    \E id \in DOMAIN sessions, c \in Chans :
        /\ Subscribed(c, id)
        /\ Truthy(sessions[id].text)
        /\ streams[c].emitted = <<ConnectedChunk(id), UpdateChunk(sessions[id].text)>>
        /\ ExistsEndpoint(id).hasText
        /\ steps = 3

\* C21: the existence check answers 404, exists:false exactly for an id
\* without a session in the Map; for an id with a session it answers 200,
\* exists:true, the session's createdAt, and hasText true exactly when the
\* session's text is not empty. (The handler only reads: ExistsReq leaves
\* every variable as it is.)
C21_ExistsCheck ==
    \A id \in Ids :
        /\ ExistsEndpoint(id).status \in {200, 404}
        /\ ExistsEndpoint(id).status = 404 <=> id \notin DOMAIN sessions
        /\ ExistsEndpoint(id).exists <=> id \in DOMAIN sessions
        /\ id \in DOMAIN sessions
             => /\ ExistsEndpoint(id).createdAt = sessions[id].createdAt
                /\ ExistsEndpoint(id).hasText <=> sessions[id].text # Empty

\* one id evicted, one session with a published text, created later
C21_Witness ==
    \E gone \in Ids, id \in DOMAIN sessions :
        /\ Evicted(gone)
        /\ sessions[id].text # Empty
        /\ sessions[id].createdAt > 0
        /\ ExistsEndpoint(id).hasText /\ ~ExistsEndpoint(gone).exists

\* C22: every chunk a stream has emitted is either a data record with a
\* type field, connected or text, or the keepalive comment, which has no
\* type field.
C22_EventsAreTyped ==
    \A c \in Chans :
        \A i \in 1..Len(streams[c].emitted) :
            LET ch == streams[c].emitted[i] IN
                IF ch.frame = "data"
                THEN /\ "type" \in DOMAIN ch.json
                     /\ ch.json.type \in {"connected", "text"}
                ELSE /\ ch = KeepaliveChunk
                     /\ "type" \notin DOMAIN ch.json

\* the age of the session id in minutes, from the clock and its createdAt
AgeOf(id) == (now - sessions[id].createdAt) * 30

\* a session older than 60 minutes is there only until the interval's run
\* that is due now, and it is not older than 90 minutes
ReapedInTime ==
    \A id \in DOMAIN sessions :
        AgeOf(id) > 60 => (ReaperDue /\ AgeOf(id) <= 90)

\* a step removes a session only when it is older than 60 minutes, and a
\* run of the interval removes every session older than 60 minutes
ReapedNotEarly ==
    /\ \A id \in DOMAIN sessions :
          id \notin DOMAIN sessions' => (AgeOf(id) > 60 /\ Reaper)
    /\ Reaper => \A id \in DOMAIN sessions :
                    AgeOf(id) > 60 => id \notin DOMAIN sessions'

\* C23: with cleanupOldSessions(60) run every 30 minutes, no session is
\* removed before it is older than 60 minutes, the first run after that
\* removes it, and no session in the Map is older than 90 minutes.
C23_ReaperSchedule ==
    []ReapedInTime /\ [][ReapedNotEarly]_vars

\* after the run at minute 90: the session of minute 0 is gone, and one
\* created at minute 30 is kept at an age of exactly 60 minutes
C23_Witness ==
    \E gone \in Ids, id \in DOMAIN sessions :
        /\ Evicted(gone) /\ gone < id
        /\ lastReap = now
        /\ AgeOf(id) = 60

\* controller c is listed in some session of the Map
Listed(c) ==
    \E id \in DOMAIN sessions : Controller(c) \in Listeners(id)

Handles == {Controller(c) : c \in Chans} \cup {StreamObject(c) : c \in Chans}

\* C25: removeListener returns for every id and handle; with an id
\* without a session or a handle that is not listed it leaves the Map as
\* it is; a second removal of the same handle changes nothing more; and
\* the removal of a listed handle takes that handle alone out of that
\* session's listeners, the others keeping their order.
C25_RemoveListenerIdempotent ==
    \A id \in Ids, h \in Handles :
        LET r == removeListener(sessions, id, h) IN
            /\ DOMAIN r = DOMAIN sessions
            /\ removeListener(r, id, h) = r
            /\ (id \notin DOMAIN sessions \/ h \notin Listeners(id)) => r = sessions
            /\ id \in DOMAIN sessions
                 => /\ SeqToSet(r[id].listeners) = Listeners(id) \ {h}
                    /\ r[id].listeners
                         = SelectSeq(sessions[id].listeners, LAMBDA x : x # h)
                    /\ r[id].text = sessions[id].text
                    /\ r[id].createdAt = sessions[id].createdAt
                    /\ \A other \in DOMAIN sessions \ {id} : r[other] = sessions[other]

\* after the abort of one of two streams of a session: the aborted one
\* is out of the listeners, the other one is still listed
C25_Witness ==
    \E id \in DOMAIN sessions, c \in Chans, d \in Chans :
        /\ streams[c].opened /\ streams[c].sid = id
        /\ streams[c].closed /\ ~streams[c].timer
        /\ Controller(c) \notin Listeners(id)
        /\ Subscribed(d, id)
        /\ c < d

\* C26: the create request puts one session into the Map, under the id it
\* returns, which no session had before: its text is empty, it has no
\* listeners and its createdAt is the current time; every session that
\* was there before is as it was.
C26_CreateSession ==
    [][\A ok \in BOOLEAN :
         (steps' = steps + 1 /\ nextId' # nextId /\ CreateReq(ok))
         => LET id == CreateEndpoint(ok).sessionId IN
                /\ id \notin DOMAIN sessions
                /\ \A c \in Chans : ~(streams[c].opened /\ streams[c].sid = id)
                /\ DOMAIN sessions' = DOMAIN sessions \cup {id}
                /\ sessions'[id].text = Empty
                /\ sessions'[id].listeners = <<>>
                /\ sessions'[id].createdAt = now
                /\ now' = now
                /\ \A other \in DOMAIN sessions : sessions'[other] = sessions[other]
       ]_vars

\* a session created at minute 30 or later beside an older session that
\* has a text and a listener
C26_Witness ==
    \E id \in DOMAIN sessions, other \in DOMAIN sessions :
        /\ other < id
        /\ sessions[id].createdAt > sessions[other].createdAt
        /\ sessions[id].text = Empty /\ sessions[id].listeners = <<>>
        /\ Truthy(sessions[other].text) /\ sessions[other].listeners # <<>>

\* C27: a create request whose QR encoder throws is answered 500; the
\* handler has called createSession once and does not call it again: one
\* id is used up, one session is added, and no stream is touched.
C27_EncoderFailure ==
    [][(steps' = steps + 1 /\ nextId' # nextId /\ CreateReq(FALSE))
         => /\ CreateEndpoint(FALSE).status = 500
            /\ CreateEndpoint(TRUE).status = 200
            /\ nextId' = nextId + 1
            /\ DOMAIN sessions' = DOMAIN sessions \cup {nextId'}
            /\ Cardinality(DOMAIN sessions') = Cardinality(DOMAIN sessions) + 1
            /\ streams' = streams
       ]_vars

\* the state after the first create request, whose encoder may have thrown
C27_Witness ==
    /\ steps = 1 /\ nextId = 1
    /\ DOMAIN sessions = {1}
    /\ sessions[1].text = Empty
    /\ CreateEndpoint(FALSE).status = 500

\* C28: whatever the streams have queued and nobody has read, a publish
\* of a non-blank text to an existing session returns: updateSession
\* tries one enqueue on each listener and on nothing else, every open
\* listener's queue grows by the one chunk, a closed one's does not, and
\* the request is answered 200.
C28_PublishCompletes ==
    \A id \in DOMAIN sessions, body \in PublishableBodies :
        LET r == updateSession(id, Trim(body.chars)) IN
            /\ r.ret /\ ~r.threw
            /\ r.attempted = Listeners(id)
            /\ PublishEndpoint(id, body).status = 200
            /\ \A c \in Chans :
                  r.streams[c].emitted =
                      IF Controller(c) \in Listeners(id) /\ ~streams[c].closed
                      THEN Append(streams[c].emitted, UpdateChunk(Trim(body.chars)))
                      ELSE streams[c].emitted

\* two streams of one session, each with three chunks queued that no
\* reader has taken, the last one the text of the latest publish
C28_Witness ==
    \E id \in DOMAIN sessions, c \in Chans, d \in Chans :
        /\ c < d
        /\ Subscribed(c, id) /\ Subscribed(d, id)
        /\ Len(streams[c].emitted) >= 3 /\ Len(streams[d].emitted) >= 3
        /\ streams[c].emitted[Len(streams[c].emitted)] = UpdateChunk(sessions[id].text)
        /\ streams[d].emitted[Len(streams[d].emitted)] = UpdateChunk(sessions[id].text)

\* the text of every session is the trimmed text of the last publish
\* answered 200 for it, or empty when there was none
TextIsLastPublish ==
    \A id \in DOMAIN sessions :
        /\ sessions[id].text = lastPub[id]
        /\ sessions[id].text = Trim(sessions[id].text)
        /\ sessions[id].text
              \in {Empty} \cup {Trim(body.chars) : body \in PublishableBodies}

\* in this step no session's text goes from not empty to empty, and a
\* text changes only to the trimmed text of a publish request
TextStaysSet ==
    \A id \in DOMAIN sessions \cap DOMAIN sessions' :
        /\ Truthy(sessions[id].text) => Truthy(sessions'[id].text)
        /\ sessions'[id].text # sessions[id].text
             => \E body \in PublishableBodies :
                   /\ sessions'[id].text = Trim(body.chars)
                   /\ PublishReq(id, body)

\* C29: a session's text is empty as long as no publish to it was
\* answered 200, and else the trimmed text of the last such publish; a
\* text that is not empty does not become empty again.
C29_TextReflectsLastPublish ==
    []TextIsLastPublish /\ [][TextStaysSet]_vars

\* a session whose text was published with blanks around it and then
\* replaced by another publish
C29_Witness ==
    \E id \in DOMAIN sessions, c \in Chans :
        /\ Subscribed(c, id)
        /\ Len(ValueTexts(streams[c].emitted)) >= 2
        /\ ValueTexts(streams[c].emitted)[1] = Trim(<<Space, "b", Space>>)
        /\ sessions[id].text = <<"a">>
        /\ lastPub[id] = <<"a">>

\* C30: a session stays under its id with the createdAt it was given:
\* no step changes the createdAt of a session that is in the Map before
\* and after it, and a step that puts a session in gives it the current
\* time. Eviction goes by createdAt alone: a step that removes a session
\* removes every session created no later than it, whatever was
\* published to them and whoever listens to them.
C30_CreatedAtIsFixed ==
    [][/\ \A id \in DOMAIN sessions \cap DOMAIN sessions' :
            sessions'[id].createdAt = sessions[id].createdAt
       /\ \A id \in DOMAIN sessions' \ DOMAIN sessions :
            /\ sessions'[id].createdAt = now
            /\ id > nextId
       /\ \A id \in DOMAIN sessions \ DOMAIN sessions' :
            \A other \in DOMAIN sessions :
                sessions[other].createdAt <= sessions[id].createdAt
                => other \notin DOMAIN sessions'
      ]_vars

\* two sessions are gone, one of which had a stream that took a published
\* text, the other one never had a stream
C30_Witness ==
    \E c \in Chans :
        /\ nextId = 2 /\ DOMAIN sessions = {}
        /\ streams[c].opened /\ streams[c].closed
        /\ ValueTexts(streams[c].emitted) # <<>>
        /\ \A d \in Chans : streams[d].opened => streams[d].sid = streams[c].sid

\* the texts that are empty after trimming
BlankTexts == {Empty, <<Space>>, <<Space, Space>>}

\* C31: updateSession called with an empty or whitespace-only text for an
\* existing session does not return true, leaves the session's text as it
\* is and enqueues nothing on any listener.
C31_StoreRejectsBlank ==
    \A id \in DOMAIN sessions, t \in BlankTexts :
        /\ ~updateSession(id, t).ret
        /\ updateSession(id, t).sessions = sessions
        /\ updateSession(id, t).streams = streams
        /\ updateSession(id, t).attempted = {}

\* stream c is open on session id and listed there, in the next state
SubscribedNext(c, id) ==
    /\ streams'[c].opened /\ ~streams'[c].closed /\ streams'[c].sid = id
    /\ id \in DOMAIN sessions'
    /\ Controller(c) \in SeqToSet(sessions'[id].listeners)

\* C32: a stream opened on a session starts, as to texts, with the text
\* the session holds at that moment (the last publish applied) when it is
\* not empty, and is subscribed from that step on; while it stays open
\* and subscribed, each publish applied to the session adds that
\* publish's text once at the end of the texts it has taken, and no other
\* step adds or removes a text.
C32_NothingMissedNothingTwice ==
    [][\A id \in Ids :
         /\ StreamStep(id)
              => /\ ValueTexts(streams'[NextChan].emitted)
                      = IF Truthy(lastPub[id]) THEN <<lastPub[id]>> ELSE <<>>
                 /\ sessions[id].text = lastPub[id]
                 /\ SubscribedNext(NextChan, id)
         /\ \A c \in Chans :
              (Subscribed(c, id) /\ SubscribedNext(c, id))
              => IF \E body \in PublishableBodies : PublishStep(id, body)
                 THEN \E body \in PublishableBodies :
                        /\ PublishStep(id, body)
                        /\ ValueTexts(streams'[c].emitted)
                             = Append(ValueTexts(streams[c].emitted), Trim(body.chars))
                 ELSE ValueTexts(streams'[c].emitted) = ValueTexts(streams[c].emitted)
       ]_vars

\* a stream opened between two publishes: it has the first text as its
\* snapshot and the second one as an update, once each
C32_Witness ==
    \E id \in DOMAIN sessions, c \in Chans, a \in PublishableBodies,
       b \in PublishableBodies :
        /\ Trim(a.chars) # Trim(b.chars)
        /\ Subscribed(c, id)
        /\ streams[c].emitted = <<ConnectedChunk(id), SnapshotChunk(Trim(a.chars)),
                                   UpdateChunk(Trim(b.chars))>>
        /\ sessions[id].text = Trim(b.chars)

\* C33: the publish handler answers 200 only when the session it looked
\* up is the one updateSession finds: updateSession returns true, and the
\* session is in the Map afterwards with the trimmed text of the request
\* as its text. This holds in every state that sweeps, requests and
\* timers can lead to, the handler running from its lookup to its answer
\* in one turn.
C33_SuccessMeansApplied ==
    \A id \in Ids, body \in Bodies :
        PublishEndpoint(id, body).status = 200
        => /\ HasSession(id)
           /\ Publishable(body)
           /\ updateSession(id, Trim(body.chars)).ret
           /\ id \in DOMAIN PublishEndpoint(id, body).sessions
           /\ PublishEndpoint(id, body).sessions[id].text = Trim(body.chars)
           /\ PublishEndpoint(id, body).sessions = updateSession(id, Trim(body.chars)).sessions

\* within the first hour a sweep has removed one session, and a publish
\* to the other one was answered 200
C33_Witness ==
    \E gone \in Ids, id \in DOMAIN sessions :
        /\ now <= 2
        /\ Evicted(gone)
        /\ Truthy(lastPub[id])
        /\ sessions[id].text = lastPub[id]

\* C34: cleanupOldSessions(maxAgeMinutes) leaves a session that is not
\* older than maxAgeMinutes in the Map, with its text, its createdAt and
\* its listeners as they were, and closes none of its listeners' streams.
C34_SweepKeepsYoung ==
    \A m \in SweepAges \cup {ReaperMaxAgeMinutes}, id \in DOMAIN sessions :
        AgeOf(id) <= m
        => /\ id \in DOMAIN cleanupOldSessions(m).sessions
           /\ cleanupOldSessions(m).sessions[id].text = sessions[id].text
           /\ cleanupOldSessions(m).sessions[id].createdAt = sessions[id].createdAt
           /\ cleanupOldSessions(m).sessions[id].listeners = sessions[id].listeners
           /\ \A c \in Chans :
                 Controller(c) \in Listeners(id)
                 => /\ cleanupOldSessions(m).streams[c].closed = streams[c].closed
                    /\ cleanupOldSessions(m).streams[c] = streams[c]

\* an hour after the start the first session is gone, and the session
\* created half an hour after it is there with its text and an open,
\* listed stream
C34_Witness ==
    \E gone \in Ids, id \in DOMAIN sessions, c \in Chans :
        /\ now = 2
        /\ Evicted(gone) /\ gone < id
        /\ AgeOf(id) = 30
        /\ Subscribed(c, id)
        /\ Truthy(sessions[id].text)

\* C35: every handle in a session's listeners is the controller of a
\* stream that was opened for that session's id; no controller is in the
\* listeners of two sessions; no handle is in a session's listeners
\* twice, also not after addListener is called twice with it.
C35_ListenersWellFormed ==
    \A id \in DOMAIN sessions :
        /\ Cardinality(Listeners(id)) = Len(sessions[id].listeners)
        /\ \A h \in Listeners(id) :
              \E c \in Chans :
                  /\ h = Controller(c)
                  /\ streams[c].opened /\ streams[c].sid = id
        /\ \A other \in DOMAIN sessions \ {id} :
              Listeners(id) \cap Listeners(other) = {}
        /\ \A c \in Chans :
              LET once == addListener(sessions, id, Controller(c))
                  twice == addListener(once, id, Controller(c))
              IN /\ twice = once
                 /\ Cardinality(SeqToSet(twice[id].listeners))
                      = Len(twice[id].listeners)
                 /\ Controller(c) \in SeqToSet(once[id].listeners)

\* two sessions, each with a stream of its own listed
C35_Witness ==
    \E id \in DOMAIN sessions, other \in DOMAIN sessions, c \in Chans, d \in Chans :
        /\ id < other
        /\ Subscribed(c, id) /\ Subscribed(d, other)
        /\ Listeners(id) = {Controller(c)}
        /\ Listeners(other) = {Controller(d)}

\* C36: a create request whose QR encoder throws is answered 500, and the
\* session createSession has inserted is in the Map all the same: the
\* existence check, a publish and a stream request for its id are
\* answered 200 right after it. A session leaves the Map only in a run
\* of the interval's cleanupOldSessions(60), when it is older than 60
\* minutes.
C36_FailedCreateLeavesSession ==
    [][/\ (steps' = steps + 1 /\ nextId' # nextId /\ CreateReq(FALSE))
            => /\ CreateEndpoint(FALSE).status = 500
               /\ nextId' \in DOMAIN sessions'
               /\ nextId' \notin DOMAIN sessions
               /\ (ExistsEndpoint(nextId).status)' = 200
               /\ \A body \in PublishableBodies :
                     (PublishEndpoint(nextId, body).status)' = 200
               /\ \A c \in Chans : (StreamEndpoint(nextId, c).status)' = 200
       /\ \A id \in DOMAIN sessions \ DOMAIN sessions' :
            Reaper /\ AgeOf(id) > ReaperMaxAgeMinutes
      ]_vars

\* the session of a create request, whose encoder may have thrown, has
\* been published to and has an open stream
C36_Witness ==
    \E c \in Chans :
        /\ nextId = 1 /\ DOMAIN sessions = {1}
        /\ CreateEndpoint(FALSE).status = 500
        /\ Truthy(sessions[1].text)
        /\ Subscribed(c, 1)

\* C37: a stream that is closed, be it by the abort of its request, by
\* cancel() or by cleanupOldSessions closing its controller, comes to
\* have its keepalive interval cleared, the interval's callback firing
\* as long as the interval is set.
C37_ClosedStreamStopsTimer ==
    \A c \in Chans :
        (streams[c].opened /\ streams[c].closed) ~> ~streams[c].timer

\* a stream that took a published text and was then cancelled: cancel()
\* left its controller listed and its interval set, and the interval's
\* next callback has cleared it
C37_Witness ==
    \E c \in Chans :
        /\ streams[c].opened /\ streams[c].closed
        /\ ~streams[c].timer
        /\ Listed(c)
        /\ ValueTexts(streams[c].emitted) # <<>>

\* ---------------------------------------------------------------- C38
\* C38: the desktop page creates one session when it mounts and a further
\* one only on a click on New or Try again: of the runs of generateQRCode
\* that no click started there is at most one, the one of the mount
C38_OneCreationPerMountOrClick == page.own <= 1

====
